---- MODULE Spec2Model ----
(***************************************************************************)
(* Linear UCB contextual bandit: the per-arm statistics kept by the agent  *)
(* (cov_matrix, data_vector, num_samples and the cached eigendecomposition *)
(* eig_vals / eig_matrix), the agent's initialize and train, and the       *)
(* action selection of LinearUCBPolicy._distribution.                      *)
(*                                                                         *)
(* Real numbers are fixed-point integers: the real v is the integer        *)
(* v * Scale.  Scale is GammaDen^MaxSamples, so that the decay by gamma of   *)
(* every statistic is exact for as many train calls as the model makes;    *)
(* the sums and products of the update rule are exact as well.  Only the   *)
(* divisions and the square root of the scoring round (toward minus        *)
(* infinity), as finite-precision arithmetic does.                         *)
(***************************************************************************)
EXTENDS Integers, Sequences, FiniteSets, TLC

\* ---------------------------------------------------------------- bounds
\* Number of arms K (num_actions = action_spec.maximum + 1).
NumActions == 2
\* Context dimension d.
ContextDim == 2
\* Samples trained on between two initializations (each train call takes
\* at least one, so this bounds the train calls as well): when the agent
\* only trains, and when selections are made between the train calls.
MaxSamples == 3
MaxPolicySamples == 2
\* Largest batch of a train call or of a selection.
MaxBatch == 2
\* Samples trained on in the runs that also feed malformed batches.
MaxIngestSamples == 1
\* Largest list length and largest dimension given to a constructor.
MaxArgArms == 2
MaxArgDim == 2
\* Calls made on a wrapped environment, and steps an episode may last.
MaxCalls == 5
MaxEpisodeSteps == 2
\* Components of a list-valued action specification.
MaxActionComponents == 2

\* ------------------------------------------------------ program constants
\* gamma = 0.9 of the forgetting test, as GammaNum / GammaDen.
GammaNum == 9
GammaDen == 10
\* alpha = 1.0, the default exploration scale of the policy.
AlphaDefault == 1
\* tikhonov_weight = 1.0, the default regularisation of the policy.
TikhonovDefault == 1

\* ------------------------------------------------------------ fixed point
RECURSIVE Pow(_, _)
Pow(b, e) == IF e = 0 THEN 1 ELSE b * Pow(b, e - 1)

Scale == Pow(GammaDen, MaxSamples)

Arms == 0 .. (NumActions - 1)
Dims == 1 .. ContextDim

\* Product and quotient of two fixed-point numbers.
FMul(a, b) == (a * b) \div Scale
FDiv(a, b) == (a * Scale) \div b

\* The function f itself.  TLC evaluates the body of a function constructor
\* at every application; comparing f with itself makes it tabulate f once.
Tabulated(f) == IF f = f THEN f ELSE f

RECURSIVE SumFn(_, _)
\* f[1] + ... + f[n]
SumFn(f, n) == IF n = 0 THEN 0 ELSE f[n] + SumFn(f, n - 1)

\* einsum('j,j->', u, v)
Dot(u, v) == SumFn([i \in 1 .. Len(u) |-> FMul(u[i], v[i])], Len(u))

\* tf.eye(context_dim), tf.zeros([context_dim]), tf.ones([context_dim])
Eye == [i \in Dims |-> [j \in Dims |-> IF i = j THEN Scale ELSE 0]]
Zeros == [i \in Dims |-> 0]
Ones == [i \in Dims |-> Scale]

\* c * M and c * v for a fixed-point scalar c.
ScaleMat(c, M) ==
  Tabulated([i \in Dims |-> [j \in Dims |-> FMul(c, M[i][j])]])
ScaleVec(c, v) == Tabulated([i \in Dims |-> FMul(c, v[i])])
AddMat_Minus(M, N) ==
  Tabulated([i \in Dims |-> [j \in Dims |-> M[i][j] - N[i][j]]])
AddMat(M, N) ==
  Tabulated([i \in Dims |-> [j \in Dims |-> M[i][j] + N[i][j]]])
AddVec(u, v) == Tabulated([i \in Dims |-> u[i] + v[i]])

\* MatTMat but for the first observation alone, the rest of the batch
\* dropped.
MatTMat_FirstOnly(X) ==
  Tabulated([i \in Dims |-> [j \in Dims |->
     IF Len(X) = 0 THEN 0 ELSE FMul(X[1][i], X[1][j])]])

\* tf.matmul(x, x, transpose_a=True): X^T X for the n x d matrix X (a
\* sequence of n rows); the d x d zero matrix when n = 0.
MatTMat(X) ==
  Tabulated([i \in Dims |-> [j \in Dims |->
     SumFn([r \in 1 .. Len(X) |-> FMul(X[r][i], X[r][j])], Len(X))]])

\* bandit_utils.sum_reward_weighted_observations(r, x): X^T r.
sum_reward_weighted_observations(r, X) ==
  Tabulated([i \in Dims |->
     SumFn([n \in 1 .. Len(X) |-> FMul(r[n], X[n][i])], Len(X))])

\* ------------------------------------------------------------------ inputs
\* The unit vector e_i and the all-ones vector, as contexts.
Unit(i) == [j \in Dims |-> IF j = i THEN Scale ELSE 0]
BasisContexts == {Unit(i) : i \in Dims}
\* The eigendecomposition is computed exactly on the diagonal matrices; in
\* eigendecomposition mode the contexts are the axis-aligned ones, which
\* keep every cov_matrix diagonal.
Contexts(eigendecomp) ==
  IF eigendecomp THEN BasisContexts ELSE {Unit(1), Ones}
Rewards == {Scale, Scale + Scale}
Gammas == {(GammaNum * Scale) \div GammaDen, Scale}

\* One (context, arm, reward) triple of a batch.
Samples(eigendecomp) ==
  [observation : Contexts(eigendecomp), action : Arms, reward : Rewards]

\* The sequences over S of length 1 .. n.
SeqsUpTo(S, n) == UNION {[1 .. m -> S] : m \in 1 .. n}

\* The batches a train call is given, every context of dimension d.
Experiences(eigendecomp) == SeqsUpTo(Samples(eigendecomp), MaxBatch)

\* Contexts whose dimension is not d: one entry short, one entry long.
MismatchedContexts ==
  {[j \in 1 .. (ContextDim - 1) |-> Scale],
   [j \in 1 .. (ContextDim + 1) |-> Scale]}

\* Batches with a sample whose context is not of dimension d, next to
\* samples that are well-formed.
MalformedExperiences(eigendecomp) ==
  LET malformed == [observation : MismatchedContexts, action : Arms,
                    reward : {Scale}]
  IN  {b \in SeqsUpTo(Samples(eigendecomp) \cup malformed, MaxBatch) :
         \E n \in 1 .. Len(b) : b[n] \in malformed}

\* The contexts a selection is asked about: those trained on and the
\* all-ones context.
QueryContexts(eigendecomp) == Contexts(eigendecomp) \cup {Ones}

\* The observation batches given to a selection: a batch is one tensor, so
\* all its contexts have one dimension, d or another.
ObservationBatches(eigendecomp) ==
  SeqsUpTo(QueryContexts(eigendecomp), MaxBatch)
    \cup UNION {SeqsUpTo({c}, MaxBatch) : c \in MismatchedContexts}

\* ------------------------------------------------------------------- state
VARIABLES
  gamma,            \* forgetting factor of the agent (fixed point)
  use_eigendecomp,  \* whether the agent keeps the eigendecomposition
  cov_matrix,       \* arm -> d x d matrix A
  data_vector,      \* arm -> vector b of length d
  num_samples,      \* arm -> number of samples attributed to the arm
  eig_vals,         \* arm -> eigenvalues of A (<<>> outside the mode)
  eig_matrix,       \* arm -> eigenvectors of A, as columns (<<>> outside)
  num_trained,      \* samples trained on since the initialization
  op,               \* the last operation called
  prev,             \* the statistics as they were before the last train
  batch,            \* the batch of the last train call
  obs,              \* the batch of contexts of the last selection
  actions,          \* the actions the last selection returned
  result,           \* how the last operation ended: "ok" or its error
  policy,           \* what the last LinearUCBPolicy construction gave
  env,              \* the wrapped environment: time step, done, steps
  env_calls,        \* the calls made on it and what each returned
  tf_policy         \* the last policy.action call on a declared spec

vars == <<gamma, use_eigendecomp, cov_matrix, data_vector, num_samples,
          eig_vals, eig_matrix, num_trained, op, prev, batch, obs, actions,
          result, policy, env, env_calls, tf_policy>>

\* The variables of the agent and of its policy.
agent_side == <<gamma, use_eigendecomp, cov_matrix, data_vector, num_samples,
                eig_vals, eig_matrix, num_trained, op, prev, batch, obs,
                actions, result, policy>>

\* The variables the agent's operations leave alone.
outside_agent == <<policy, env, env_calls, tf_policy>>

\* The statistics store, as one value.
Store ==
  [cov |-> cov_matrix, data |-> data_vector, num |-> num_samples,
   eig_vals |-> eig_vals, eig_matrix |-> eig_matrix]

\* InitialStore with the zero matrix in place of the identity.
InitialStore_ZeroCov(eigendecomp) ==
  [cov |-> [k \in Arms |-> [i \in Dims |-> Zeros]],
   data |-> [k \in Arms |-> Zeros],
   num |-> [k \in Arms |-> 0],
   eig_vals |-> [k \in Arms |-> IF eigendecomp THEN Ones ELSE <<>>],
   eig_matrix |-> [k \in Arms |-> IF eigendecomp THEN Eye ELSE <<>>]]

\* The values the variables are created with: identity, zero, no sample,
\* and in eigendecomposition mode the eigendecomposition of the identity.
InitialStore(eigendecomp) ==
  [cov |-> [k \in Arms |-> Eye],
   data |-> [k \in Arms |-> Zeros],
   num |-> [k \in Arms |-> 0],
   eig_vals |-> [k \in Arms |-> IF eigendecomp THEN Ones ELSE <<>>],
   eig_matrix |-> [k \in Arms |-> IF eigendecomp THEN Eye ELSE <<>>]]

\* SamplesForArm without the partition: every arm gets the whole batch.
SamplesForArm_WholeBatch(b, k) == b

\* ------------------------------------------------------------- update rule
\* tf.dynamic_partition of the batch by action: the samples of arm k, in
\* batch order.
SamplesForArm(b, k) == SelectSeq(b, LAMBDA s : s.action = k)
\* ObservationsForArm with the observations of the arm reversed in their
\* coordinates.
ObservationsForArm_Reversed(b, k) ==
  LET for_arm == SamplesForArm(b, k)
  IN  [n \in 1 .. Len(for_arm) |->
         [i \in Dims |-> for_arm[n].observation[ContextDim + 1 - i]]]

ObservationsForArm(b, k) ==
  LET for_arm == SamplesForArm(b, k)
  IN  [n \in 1 .. Len(for_arm) |-> for_arm[n].observation]
\* RewardsForArm with every sample of the arm given the reward of the first.
RewardsForArm_First(b, k) ==
  LET for_arm == SamplesForArm(b, k)
  IN  [n \in 1 .. Len(for_arm) |-> for_arm[1].reward]

RewardsForArm(b, k) ==
  LET for_arm == SamplesForArm(b, k)
  IN  [n \in 1 .. Len(for_arm) |-> for_arm[n].reward]

\* Position of the diagonal entry j of M among the diagonal entries in
\* ascending order (equal entries in index order).
DiagRank(M, j) ==
  1 + Cardinality({l \in Dims : \/ M[l][l] < M[j][j]
                                \/ M[l][l] = M[j][j] /\ l < j})
DiagAt(M, i) == CHOOSE j \in Dims : DiagRank(M, j) = i

\* EighVals without the ascending order: the diagonal as it stands.
EighVals_Unsorted(M) == Tabulated([i \in Dims |-> M[i][i]])

\* tf.linalg.eigh(a_new) on a diagonal matrix: the eigenvalues in ascending
\* order, and the matrix whose column i is the unit eigenvector of
\* eigenvalue i.
EighVals(M) == Tabulated([i \in Dims |-> M[DiagAt(M, i)][DiagAt(M, i)]])
EighMatrix(M) ==
  Tabulated([r \in Dims |->
               [i \in Dims |-> IF r = DiagAt(M, i) THEN Scale ELSE 0]])

\* a_new = gamma * a_prev + X^T X ; b_new = gamma * b_prev + X^T r ; the
\* eigendecomposition of a_new when the mode asks for it.
update_a_and_b_with_forgetting(a_prev, b_prev, r, x, g, eigendecomp) ==
  LET a_new == AddMat(ScaleMat(g, a_prev), MatTMat(x))
      b_new == AddVec(ScaleVec(g, b_prev),
                      sum_reward_weighted_observations(r, x))
  IN  [cov |-> a_new, data |-> b_new,
       eig_vals |-> IF eigendecomp THEN EighVals(a_new) ELSE <<>>,
       eig_matrix |-> IF eigendecomp THEN EighMatrix(a_new) ELSE <<>>]

\* ArmHasSamples with the update taken for every arm, sampled or not.
ArmHasSamples_Always(num_samples_for_arm_total) ==
  num_samples_for_arm_total >= 0

\* The branch of the update of arm k: the arm is updated once it has a
\* sample (num_samples_for_arm_total > 0), and is left as it is otherwise.
ArmHasSamples(num_samples_for_arm_total) == num_samples_for_arm_total > 0

\* The statistics of arm k after a train call on the batch b.
TrainArm(st, b, k, g, eigendecomp) ==
  LET num_samples_for_arm_current == Len(SamplesForArm(b, k))
      num_samples_for_arm_total == st.num[k] + num_samples_for_arm_current
      unchanged == [cov |-> st.cov[k], data |-> st.data[k],
                    eig_vals |-> st.eig_vals[k],
                    eig_matrix |-> st.eig_matrix[k]]
      upd == IF ArmHasSamples(num_samples_for_arm_total)
             THEN update_a_and_b_with_forgetting(
                    st.cov[k], st.data[k], RewardsForArm(b, k),
                    ObservationsForArm(b, k), g, eigendecomp)
             ELSE unchanged
  IN  [cov |-> upd.cov, data |-> upd.data,
       num |-> num_samples_for_arm_total,
       eig_vals |-> upd.eig_vals, eig_matrix |-> upd.eig_matrix]

\* The store after a train call on the batch b.
TrainStore(st, b, g, eigendecomp) ==
  [cov |-> [k \in Arms |-> TrainArm(st, b, k, g, eigendecomp).cov],
   data |-> [k \in Arms |-> TrainArm(st, b, k, g, eigendecomp).data],
   num |-> [k \in Arms |-> TrainArm(st, b, k, g, eigendecomp).num],
   eig_vals |->
     [k \in Arms |-> TrainArm(st, b, k, g, eigendecomp).eig_vals],
   eig_matrix |->
     [k \in Arms |-> TrainArm(st, b, k, g, eigendecomp).eig_matrix]]

\* ------------------------------------------------------------------ policy
\* Largest r with r * r <= n, searched between lo and hi.
RECURSIVE IsqrtBetween(_, _, _)
IsqrtBetween(n, lo, hi) ==
  IF lo = hi THEN lo
  ELSE LET mid == (lo + hi + 1) \div 2
       IN  IF mid * mid <= n THEN IsqrtBetween(n, mid, hi)
           ELSE IsqrtBetween(n, lo, mid - 1)

\* tf.sqrt on a fixed-point number.
FSqrt(a) == IsqrtBetween(a * Scale, 0, IF a * Scale < 46340 THEN a * Scale ELSE 46340)

\* A v for the matrix A and the vector v.
MatVec(A, v) == Tabulated([i \in Dims |-> Dot(A[i], v)])

\* Conjugate gradient iterations on A x = b from the iterate x with residual
\* r, search direction p and squared residual rs; at most n more iterations,
\* none once the residual is zero.
RECURSIVE ConjugateGradientFrom(_, _, _, _, _, _)
ConjugateGradientFrom(A, x, r, p, rs, n) ==
  IF n = 0 \/ rs = 0 THEN x
  ELSE LET a_x_p == MatVec(A, p)
           step == FDiv(rs, Dot(p, a_x_p))
           x_new == Tabulated([i \in Dims |-> x[i] + FMul(step, p[i])])
           r_new == Tabulated([i \in Dims |-> r[i] - FMul(step, a_x_p[i])])
           rs_new == Dot(r_new, r_new)
           p_new == Tabulated([i \in Dims |->
                                 r_new[i] + FMul(FDiv(rs_new, rs), p[i])])
       IN  ConjugateGradientFrom(A, x_new, r_new, p_new, rs_new, n - 1)

\* linalg.conjugate_gradient_solve(a_mat, b_mat): the solution X of
\* A X = B, one column of B (one context) at a time, each from x = 0.
conjugate_gradient_solve(a_mat, b_mat) ==
  Tabulated([c \in 1 .. Len(b_mat) |->
     ConjugateGradientFrom(a_mat, Zeros, b_mat[c], b_mat[c],
                           Dot(b_mat[c], b_mat[c]), ContextDim)])

\* PolicyVariables as a copy taken when the policy was constructed.
PolicyVariables_Snapshot(st, eigendecomp) ==
  [cov_matrix |-> [k \in Arms |-> Eye],
   data_vector |-> [k \in Arms |-> Zeros],
   num_samples |-> [k \in Arms |-> 0],
   eig_vals |-> IF eigendecomp THEN [k \in Arms |-> Ones] ELSE <<>>,
   eig_matrix |-> IF eigendecomp THEN [k \in Arms |-> Eye] ELSE <<>>]

\* The statistics the policy scores from.  The policy is constructed by the
\* agent with the agent's variables (self._cov_matrix = cov_matrix, ...);
\* it keeps the variables, not their values, so what it reads is the store
\* st as it is at the time of the selection.  The eigendecomposition lists
\* are passed in eigendecomposition mode only.
PolicyVariables(st, eigendecomp) ==
  [cov_matrix |-> st.cov, data_vector |-> st.data, num_samples |-> st.num,
   eig_vals |-> IF eigendecomp THEN st.eig_vals ELSE <<>>,
   eig_matrix |-> IF eigendecomp THEN st.eig_matrix ELSE <<>>]

\* self._use_eigendecomp: set when the policy is given eigenvectors.
PolicyUsesEigendecomp(pol) == pol.eig_matrix # <<>>

\* AInvX with the eigenvalues inverted as they are, the Tikhonov weight
\* left out of the cached path.
AInvX_Unregularized(pol, k, observation) ==
  IF PolicyUsesEigendecomp(pol)
  THEN Tabulated([c \in 1 .. Len(observation) |-> [i \in Dims |->
         SumFn([j \in Dims |->
                  FMul(pol.eig_matrix[k][i][j],
                       FMul(FDiv(Scale, pol.eig_vals[k][j]),
                            SumFn([l \in Dims |->
                                     FMul(pol.eig_matrix[k][l][j],
                                          observation[c][l])],
                                  ContextDim)))],
               ContextDim)]])
  ELSE conjugate_gradient_solve(
         AddMat(pol.cov_matrix[k], ScaleMat(TikhonovDefault * Scale, Eye)),
         observation)

\* a_inv_x of arm k: column c is (A_k + tikhonov_weight * I)^-1 applied to
\* context c, from the cached eigendecomposition or from the solver.
AInvX(pol, k, observation) ==
  IF PolicyUsesEigendecomp(pol)
  THEN LET q_t_b == Tabulated([c \in 1 .. Len(observation) |->
                       [j \in Dims |->
                          SumFn([i \in Dims |->
                                   FMul(pol.eig_matrix[k][i][j],
                                        observation[c][i])], ContextDim)]])
           lambda_inv == Tabulated([j \in Dims |->
                            FDiv(Scale, pol.eig_vals[k][j]
                                          + TikhonovDefault * Scale)])
       IN  Tabulated([c \in 1 .. Len(observation) |->
              [i \in Dims |->
                 SumFn([j \in Dims |->
                          FMul(pol.eig_matrix[k][i][j],
                               FMul(lambda_inv[j], q_t_b[c][j]))],
                       ContextDim)]])
  ELSE conjugate_gradient_solve(
         AddMat(pol.cov_matrix[k], ScaleMat(TikhonovDefault * Scale, Eye)),
         observation)

\* The score of arm k for every context of the batch:
\* est_mean_reward + alpha * sqrt(ci).
PValues(pol, k, observation) ==
  LET a_inv_x == AInvX(pol, k, observation)
  IN  Tabulated([c \in 1 .. Len(observation) |->
         LET est_mean_reward == Dot(pol.data_vector[k], a_inv_x[c])
             ci == Dot(observation[c], a_inv_x[c])
         IN  est_mean_reward + FMul(AlphaDefault * Scale, FSqrt(ci))])

\* tf.argmax over the arms k .. K-1, best being the best arm before k: the
\* first arm with the largest score.
RECURSIVE ArgMaxFrom(_, _, _)
ArgMaxFrom(p, k, best) ==
  IF k = NumActions THEN best
  ELSE ArgMaxFrom(p, k + 1, IF p[k] > p[best] THEN k ELSE best)

\* ArgMax with ties going to the highest arm.
ArgMax_Last(p) ==
  CHOOSE k \in Arms :
    \A j \in Arms : p[j] < p[k] \/ (p[j] = p[k] /\ j <= k)

\* tf.argmax over all the arms.
ArgMax(p) == ArgMaxFrom(p, 1, 0)

\* The scores of the batch, arm by arm, as _distribution computes them.
AllPValues(pol, observation) ==
  Tabulated([k \in Arms |-> PValues(pol, k, observation)])

\* ChosenActions with the arms counted from one.
ChosenActions_OneBased(pol, observation) ==
  LET p_values == AllPValues(pol, observation)
  IN  [c \in 1 .. Len(observation) |->
         ArgMax([k \in Arms |-> p_values[k][c]]) + 1]

\* chosen_actions of _distribution: one action per context of the batch.
ChosenActions(pol, observation) ==
  LET p_values == AllPValues(pol, observation)
  IN  [c \in 1 .. Len(observation) |->
         ArgMax([k \in Arms |-> p_values[k][c]])]

\* The shape check of _distribution: every context of the batch has
\* observation_dim entries.
is_compatible_with(observation, observation_dim) ==
  \A c \in 1 .. Len(observation) : Len(observation[c]) = observation_dim

\* Distribution without the shape check: a batch of another dimension gets
\* the first arm for each of its contexts.
Distribution_Unchecked(pol, observation_dim, observation) ==
  IF ~is_compatible_with(observation, observation_dim)
  THEN [result |-> "ok", actions |-> [c \in 1 .. Len(observation) |-> 0]]
  ELSE [result |-> "ok", actions |-> ChosenActions(pol, observation)]

\* _distribution as a whole: the batch is refused before any arm is scored
\* when its shape is not [None, observation_dim], and each context gets its
\* action otherwise.
Distribution(pol, observation_dim, observation) ==
  IF ~is_compatible_with(observation, observation_dim)
  THEN [result |-> "ValueError", actions |-> <<>>]
  ELSE [result |-> "ok", actions |-> ChosenActions(pol, observation)]

\* ------------------------------------------------------------ construction
\* The arguments of LinearUCBPolicy.__init__, as far as it looks at them:
\* action_spec.maximum, whether action_spec is nested, the lengths of the
\* lists, whether eig_matrix is given, the dimension of the observation
\* spec and those of cov_matrix[0] and data_vector[0], and which argument,
\* if any, is not a list.
PolicyArguments ==
  [maximum : (0 - 2) .. (MaxArgArms - 1),
   nested : BOOLEAN,
   num_cov : 0 .. MaxArgArms,
   num_data : 0 .. MaxArgArms,
   num_num : 0 .. MaxArgArms,
   eig_given : BOOLEAN,
   observation_dim : 0 .. MaxArgDim,
   cov_dim : 0 .. MaxArgDim,
   data_dim : 0 .. MaxArgDim,
   not_a_list : {"none", "cov_matrix", "data_vector", "num_samples",
                 "eig_vals", "eig_matrix"}]

\* The arguments the agent constructs its policy with.
AgentPolicyArguments(eigendecomp) ==
  [maximum |-> NumActions - 1, nested |-> FALSE,
   num_cov |-> NumActions, num_data |-> NumActions, num_num |-> NumActions,
   eig_given |-> eigendecomp,
   observation_dim |-> ContextDim, cov_dim |-> ContextDim,
   data_dim |-> ContextDim, not_a_list |-> "none"]

\* A construction that raised error: no policy object exists.
NoPolicy(args, error) ==
  [error |-> error, args |-> args, num_actions |-> 0, observation_dim |-> 0,
   use_eigendecomp |-> FALSE]

\* LinearUCBPolicy_init without the comparison of the number of actions
\* with the number of covariance matrices.
LinearUCBPolicy_init_NoArmCheck(args) ==
  LET num_actions == args.maximum + 1
  IN  IF args.not_a_list # "none" THEN NoPolicy(args, "ValueError")
      ELSE IF args.num_cov # args.num_data THEN NoPolicy(args, "ValueError")
      ELSE IF args.num_num # args.num_cov THEN NoPolicy(args, "ValueError")
      ELSE IF args.nested THEN NoPolicy(args, "ValueError")
      ELSE IF args.num_cov = 0 THEN NoPolicy(args, "IndexError")
      ELSE IF args.observation_dim # args.cov_dim
        THEN NoPolicy(args, "ValueError")
      ELSE IF args.observation_dim # args.data_dim
        THEN NoPolicy(args, "ValueError")
      ELSE [error |-> "none", args |-> args, num_actions |-> num_actions,
            observation_dim |-> args.observation_dim,
            use_eigendecomp |-> args.eig_given]

\* LinearUCBPolicy.__init__: the checks in the order of the code, and the
\* fields of the policy when all of them pass.
LinearUCBPolicy_init(args) ==
  LET num_actions == args.maximum + 1
  IN  IF args.not_a_list # "none" THEN NoPolicy(args, "ValueError")
      ELSE IF args.num_cov # args.num_data THEN NoPolicy(args, "ValueError")
      ELSE IF args.num_num # args.num_cov THEN NoPolicy(args, "ValueError")
      ELSE IF args.nested THEN NoPolicy(args, "ValueError")
      ELSE IF num_actions # args.num_cov THEN NoPolicy(args, "ValueError")
      ELSE IF args.num_cov = 0 THEN NoPolicy(args, "IndexError")
      ELSE IF args.observation_dim # args.cov_dim
        THEN NoPolicy(args, "ValueError")
      ELSE IF args.observation_dim # args.data_dim
        THEN NoPolicy(args, "ValueError")
      ELSE [error |-> "none", args |-> args, num_actions |-> num_actions,
            observation_dim |-> args.observation_dim,
            use_eigendecomp |-> args.eig_given]

\* ------------------------------------------------------ wrapped environment
\* The time steps by step type: restart is FIRST with reward 0 and discount
\* 1, transition is MID with discount 1, termination is LAST with discount
\* 0.
restart == [step_type |-> "FIRST", reward |-> 0, discount |-> Scale]
transition(reward) ==
  [step_type |-> "MID", reward |-> reward, discount |-> Scale]

\* termination with the discount of a transition.
termination_Undiscounted(reward) ==
  [step_type |-> "LAST", reward |-> reward, discount |-> Scale]

termination(reward) ==
  [step_type |-> "LAST", reward |-> reward, discount |-> 0]

\* No time step yet: the wrapper was created and not yet reset or stepped.
NoTimeStep == [step_type |-> "NONE", reward |-> 0, discount |-> 0]

\* The rewards the wrapped gym environment gives for a step.
GymRewards == {0, Scale}

\* The wrapper as it is created: no time step, no episode in progress.
NewEnv == [current_time_step |-> NoTimeStep, done |-> TRUE, steps |-> 0]

\* ------------------------------------------------------------ policy.action
\* The element types of the components of an action.
Dtypes == {"int32", "int64", "float32"}

\* Whether the element type of a component is the one its specification
\* declares.
compare_to_spec(value_dtype, spec_dtype) == value_dtype = spec_dtype

\* BaseAction with the first component checked alone.
BaseAction_FirstOnly(action_spec, produced) ==
  IF compare_to_spec(produced[1], action_spec[1])
  THEN [action_spec |-> action_spec, produced |-> produced,
        result |-> "ok", returned |-> produced]
  ELSE [action_spec |-> action_spec, produced |-> produced,
        result |-> "TypeError", returned |-> <<>>]

\* tf_policy.Base.action: the action _action produced is returned as it is
\* when every component has the element type of its specification, and
\* TypeError is raised otherwise.
BaseAction(action_spec, produced) ==
  IF \A i \in 1 .. Len(action_spec) :
       compare_to_spec(produced[i], action_spec[i])
  THEN [action_spec |-> action_spec, produced |-> produced,
        result |-> "ok", returned |-> produced]
  ELSE [action_spec |-> action_spec, produced |-> produced,
        result |-> "TypeError", returned |-> <<>>]

\* No policy.action call yet.
NoAction ==
  [action_spec |-> <<>>, produced |-> <<>>, result |-> "none",
   returned |-> <<>>]

\* ----------------------------------------------------------------- actions
\* Construction of the agent: the variables hold their initial values.
Init ==
  /\ gamma \in Gammas
  /\ use_eigendecomp \in BOOLEAN
  /\ cov_matrix = InitialStore(use_eigendecomp).cov
  /\ data_vector = InitialStore(use_eigendecomp).data
  /\ num_samples = InitialStore(use_eigendecomp).num
  /\ eig_vals = InitialStore(use_eigendecomp).eig_vals
  /\ eig_matrix = InitialStore(use_eigendecomp).eig_matrix
  /\ num_trained = 0
  /\ op = "construct"
  /\ prev = InitialStore(use_eigendecomp)
  /\ batch = <<>>
  /\ obs = <<>>
  /\ actions = <<>>
  /\ result = "ok"
  /\ policy = LinearUCBPolicy_init(AgentPolicyArguments(use_eigendecomp))
  /\ env = NewEnv
  /\ env_calls = <<>>
  /\ tf_policy = NoAction

\* agent.initialize(): the variables are set to their initial values.
Initialize ==
  /\ cov_matrix' = InitialStore(use_eigendecomp).cov
  /\ data_vector' = InitialStore(use_eigendecomp).data
  /\ num_samples' = InitialStore(use_eigendecomp).num
  /\ eig_vals' = InitialStore(use_eigendecomp).eig_vals
  /\ eig_matrix' = InitialStore(use_eigendecomp).eig_matrix
  /\ num_trained' = 0
  /\ op' = "initialize"
  /\ prev' = InitialStore(use_eigendecomp)
  /\ batch' = <<>>
  /\ obs' = <<>>
  /\ actions' = <<>>
  /\ result' = "ok"
  /\ UNCHANGED <<gamma, use_eigendecomp>>
  /\ UNCHANGED outside_agent

\* Train with the samples ingested one by one: the well-formed samples
\* before the first malformed one are applied before the call fails.
Train_Partial(max_samples, experiences) ==
  /\ \E b \in experiences :
       /\ batch' = b
       /\ IF \A n \in 1 .. Len(b) : Len(b[n].observation) = ContextDim
          THEN /\ num_trained + Len(b) <= max_samples
               /\ \E new \in {TrainStore(Store, b, gamma, use_eigendecomp)} :
                     /\ cov_matrix' = new.cov
                     /\ data_vector' = new.data
                     /\ num_samples' = new.num
                     /\ eig_vals' = new.eig_vals
                     /\ eig_matrix' = new.eig_matrix
               /\ num_trained' = num_trained + Len(b)
               /\ result' = "ok"
          ELSE /\ \E new \in {IF Len(b[1].observation) = ContextDim
                               THEN TrainStore(Store, <<b[1]>>, gamma,
                                               use_eigendecomp)
                               ELSE Store} :
                     /\ cov_matrix' = new.cov
                     /\ data_vector' = new.data
                     /\ num_samples' = new.num
                     /\ eig_vals' = new.eig_vals
                     /\ eig_matrix' = new.eig_matrix
               /\ UNCHANGED num_trained
               /\ result' = "DimensionMismatch"
  /\ op' = "train"
  /\ prev' = Store
  /\ obs' = <<>>
  /\ actions' = <<>>
  /\ UNCHANGED <<gamma, use_eigendecomp>>
  /\ UNCHANGED outside_agent

\* agent.train(experience) on a batch of (context, arm, reward) triples
\* drawn from experiences, while no more than max_samples samples have been
\* trained on. A batch with a context whose dimension is not d is refused
\* before any arm is written.
Train(max_samples, experiences) ==
  /\ \E b \in experiences :
       /\ batch' = b
       /\ IF \A n \in 1 .. Len(b) : Len(b[n].observation) = ContextDim
          THEN /\ num_trained + Len(b) <= max_samples
               /\ \E new \in {TrainStore(Store, b, gamma, use_eigendecomp)} :
                     /\ cov_matrix' = new.cov
                     /\ data_vector' = new.data
                     /\ num_samples' = new.num
                     /\ eig_vals' = new.eig_vals
                     /\ eig_matrix' = new.eig_matrix
               /\ num_trained' = num_trained + Len(b)
               /\ result' = "ok"
          ELSE /\ UNCHANGED <<cov_matrix, data_vector, num_samples, eig_vals,
                              eig_matrix, num_trained>>
               /\ result' = "DimensionMismatch"
  /\ op' = "train"
  /\ prev' = Store
  /\ obs' = <<>>
  /\ actions' = <<>>
  /\ UNCHANGED <<gamma, use_eigendecomp>>
  /\ UNCHANGED outside_agent

\* Select with the selection clearing the data vectors.
Select_Clearing ==
  /\ \E observation \in ObservationBatches(use_eigendecomp) :
       /\ obs' = observation
       /\ \E out \in {Distribution(PolicyVariables(Store, use_eigendecomp),
                                   policy.observation_dim, observation)} :
            /\ actions' = out.actions
            /\ result' = out.result
  /\ data_vector' = [k \in Arms |-> Zeros]
  /\ op' = "select"
  /\ UNCHANGED <<gamma, use_eigendecomp, cov_matrix, num_samples, eig_vals,
                 eig_matrix, num_trained, prev, batch>>
  /\ UNCHANGED outside_agent

\* policy.action(time_step) on a batch of contexts.
Select ==
  /\ \E observation \in ObservationBatches(use_eigendecomp) :
       /\ obs' = observation
       /\ \E out \in {Distribution(PolicyVariables(Store, use_eigendecomp),
                                   policy.observation_dim, observation)} :
            /\ actions' = out.actions
            /\ result' = out.result
  /\ op' = "select"
  /\ UNCHANGED <<gamma, use_eigendecomp, cov_matrix, data_vector,
                 num_samples, eig_vals, eig_matrix, num_trained, prev, batch>>
  /\ UNCHANGED outside_agent

\* policy.action(time_step) once more on the batch of the last selection.
Reselect ==
  /\ op = "select"
  /\ \E out \in {Distribution(PolicyVariables(Store, use_eigendecomp),
                              policy.observation_dim, obs)} :
       /\ actions' = out.actions
       /\ result' = out.result
  /\ op' = "reselect"
  /\ UNCHANGED <<gamma, use_eigendecomp, cov_matrix, data_vector,
                 num_samples, eig_vals, eig_matrix, num_trained, prev, batch,
                 obs>>
  /\ UNCHANGED outside_agent

\* LinearUCBPolicy(...) constructed on arguments of the caller's choice.
\* A construction does not depend on the ones before it: a run has one.
Construct ==
  /\ op # "construct_policy"
  /\ \E args \in PolicyArguments : policy' = LinearUCBPolicy_init(args)
  /\ op' = "construct_policy"
  /\ UNCHANGED <<gamma, use_eigendecomp, cov_matrix, data_vector,
                 num_samples, eig_vals, eig_matrix, num_trained, prev, batch,
                 obs, actions, result>>
  /\ UNCHANGED <<env, env_calls, tf_policy>>

\* env.reset(): a new episode starts with a FIRST time step.
EnvReset ==
  /\ Len(env_calls) < MaxCalls
  /\ env' = [current_time_step |-> restart, done |-> FALSE, steps |-> 0]
  /\ env_calls' = Append(env_calls, [call |-> "reset", done |-> FALSE,
                                     time_step |-> restart])
  /\ UNCHANGED agent_side
  /\ UNCHANGED tf_policy

\* EnvStep without the automatic reset: the gym environment is stepped
\* whatever the state of the episode.
EnvStep_NoAutoReset ==
  /\ Len(env_calls) < MaxCalls
  /\ \E reward \in GymRewards, done \in BOOLEAN :
       LET time_step == IF done THEN termination(reward)
                        ELSE transition(reward)
       IN  /\ env' = [current_time_step |-> time_step, done |-> done,
                      steps |-> 0]
           /\ env_calls' = Append(env_calls, [call |-> "step", done |-> done,
                                              time_step |-> time_step])
  /\ UNCHANGED agent_side
  /\ UNCHANGED tf_policy

\* env.step(action): with no time step yet, or after the episode is done,
\* the call resets; otherwise it steps the gym environment, whose episode
\* ends when it says so and after MaxEpisodeSteps steps at the latest.
EnvStep ==
  /\ Len(env_calls) < MaxCalls
  /\ IF env.current_time_step = NoTimeStep \/ env.done
     THEN /\ env' = [current_time_step |-> restart, done |-> FALSE,
                     steps |-> 0]
          /\ env_calls' = Append(env_calls, [call |-> "step", done |-> FALSE,
                                             time_step |-> restart])
     ELSE \E reward \in GymRewards,
             done \in IF env.steps + 1 = MaxEpisodeSteps THEN {TRUE}
                      ELSE BOOLEAN :
            LET time_step == IF done THEN termination(reward)
                             ELSE transition(reward)
            IN  /\ env' = [current_time_step |-> time_step, done |-> done,
                           steps |-> env.steps + 1]
                /\ env_calls' = Append(env_calls,
                                       [call |-> "step", done |-> done,
                                        time_step |-> time_step])
  /\ UNCHANGED agent_side
  /\ UNCHANGED tf_policy

\* policy.action(time_step) on a policy whose action specification is a
\* list of components, _action producing a list of as many components. A
\* call does not depend on the ones before it: a run has one.
PolicyAction ==
  /\ tf_policy.result = "none"
  /\ \E n \in 1 .. MaxActionComponents :
       \E action_spec \in [1 .. n -> Dtypes], produced \in [1 .. n -> Dtypes] :
         tf_policy' = BaseAction(action_spec, produced)
  /\ UNCHANGED agent_side
  /\ UNCHANGED <<env, env_calls>>

\* The agent and its policy: training, and selections between train calls.
Next ==
  \/ Initialize
  \/ Train(MaxPolicySamples, Experiences(use_eigendecomp))
  \/ Select
  \/ Reselect

Spec == Init /\ [][Next]_vars

\* The agent alone: initialize and train.
NextTrain == Initialize \/ Train(MaxSamples, Experiences(use_eigendecomp))

SpecTrain == Init /\ [][NextTrain]_vars

\* The agent fed well-formed and malformed batches.
NextIngest ==
  \/ Initialize
  \/ Train(MaxIngestSamples,
           Experiences(use_eigendecomp)
             \cup MalformedExperiences(use_eigendecomp))

SpecIngest == Init /\ [][NextIngest]_vars

\* Policies constructed on any arguments.
NextConstruct == Construct

SpecConstruct == Init /\ [][NextConstruct]_vars

\* A wrapped environment under any sequence of reset and step calls.
NextEnv == EnvReset \/ EnvStep

SpecEnv == Init /\ [][NextEnv]_vars

\* policy.action on any declared and produced element types.
NextAction == PolicyAction

SpecAction == Init /\ [][NextAction]_vars

\* ------------------------------------------------------------------ claims
\* The statements below are over exact integers: an entry v of a statistic
\* stands for v / Scale, gamma for gamma / Scale, and the products of two
\* fixed-point numbers are left unrounded on both sides.

\* Arm k has a sample in the batch of the last train call.
InBatch(k) == \E n \in 1 .. Len(batch) : batch[n].action = k

\* Entry (i, j) of X_k^T X_k and entry i of X_k^T r_k, summed over the
\* entries of the last batch whose action is k.
BatchXtX(k, i, j) ==
  SumFn([n \in 1 .. Len(batch) |->
           IF batch[n].action = k
           THEN batch[n].observation[i] * batch[n].observation[j]
           ELSE 0], Len(batch))
BatchXtR(k, i) ==
  SumFn([n \in 1 .. Len(batch) |->
           IF batch[n].action = k
           THEN batch[n].observation[i] * batch[n].reward
           ELSE 0], Len(batch))

\* The last train call multiplied the cov_matrix / data_vector of arm k by
\* gamma and added what is given.
CovIsDecayedPlus(k, added(_, _)) ==
  \A i, j \in Dims :
    cov_matrix[k][i][j] * Scale = gamma * prev.cov[k][i][j] + added(i, j)
DataIsDecayedPlus(k, added(_)) ==
  \A i \in Dims :
    data_vector[k][i] * Scale = gamma * prev.data[k][i] + added(i)

\* The last train call left the cov_matrix and data_vector of arm k alone.
ArmUnchanged(k) ==
  /\ cov_matrix[k] = prev.cov[k]
  /\ data_vector[k] = prev.data[k]

\* cov_matrix[k] is the identity and data_vector[k] the zero vector.
ArmIsInitial(k) ==
  /\ \A i, j \in Dims : cov_matrix[k][i][j] = IF i = j THEN Scale ELSE 0
  /\ \A i \in Dims : data_vector[k][i] = 0

\* The last train call was the first one since the initialization.
FirstTrain == op = "train" /\ num_trained = Len(batch)

\* C1: one train call leaves every arm k with n_k > 0 samples in the batch
\* with cov_matrix[k] = gamma * previous cov_matrix[k] + X_k^T X_k and
\* data_vector[k] = gamma * previous data_vector[k] + X_k^T r_k.
C1_UpdateRule ==
  op = "train" =>
    \A k \in Arms :
      InBatch(k) =>
        /\ CovIsDecayedPlus(k, LAMBDA i, j : BatchXtX(k, i, j))
        /\ DataIsDecayedPlus(k, LAMBDA i : BatchXtR(k, i))

\* A train call with gamma < 1 gave two samples to an arm that had samples.
C1_Witness ==
  /\ op = "train"
  /\ gamma < Scale
  /\ \E k \in Arms :
       /\ prev.num[k] > 0
       /\ Cardinality({n \in 1 .. Len(batch) : batch[n].action = k}) = 2

\* C2, as claimed: with gamma < 1, every train call decays both tensors of
\* every arm that has no sample in the batch.
C2_DecayOnEveryTrain ==
  (op = "train" /\ gamma < Scale) =>
    \A k \in Arms :
      ~InBatch(k) =>
        /\ CovIsDecayedPlus(k, LAMBDA i, j : 0)
        /\ DataIsDecayedPlus(k, LAMBDA i : 0)

\* C2, amended: with gamma < 1, a train call decays both tensors of an arm
\* that has no sample in the batch and had samples before, and leaves both
\* tensors of an arm that never had a sample as they were.
C2_DecayOnceSampled ==
  (op = "train" /\ gamma < Scale) =>
    \A k \in Arms :
      ~InBatch(k) =>
        IF prev.num[k] > 0
        THEN /\ CovIsDecayedPlus(k, LAMBDA i, j : 0)
             /\ DataIsDecayedPlus(k, LAMBDA i : 0)
        ELSE ArmUnchanged(k)

\* A train call with gamma < 1 gave no sample to an arm that had samples,
\* and changed its tensors.
C2_Witness ==
  /\ op = "train"
  /\ gamma < Scale
  /\ \E k \in Arms : ~InBatch(k) /\ prev.num[k] > 0 /\ ~ArmUnchanged(k)

\* C3: after the first train call with gamma = 0.9, an arm without a sample
\* in the batch has the identity, the zero vector and (in eigendecomposition
\* mode) eigenvalues all 1; an arm with samples has gamma * I + X_k^T X_k.
C3_FirstTrainWithForgetting ==
  (FirstTrain /\ gamma * GammaDen = GammaNum * Scale) =>
    \A k \in Arms :
      IF InBatch(k)
      THEN \A i, j \in Dims :
             cov_matrix[k][i][j] * Scale =
               gamma * (IF i = j THEN Scale ELSE 0) + BatchXtX(k, i, j)
      ELSE /\ ArmIsInitial(k)
           /\ use_eigendecomp => \A i \in Dims : eig_vals[k][i] = Scale

\* The first train call, with gamma = 0.9 and in eigendecomposition mode,
\* gave samples to one arm and none to another.
C3_Witness ==
  /\ FirstTrain
  /\ gamma * GammaDen = GammaNum * Scale
  /\ use_eigendecomp
  /\ \E k \in Arms : InBatch(k)
  /\ \E k \in Arms : ~InBatch(k)

\* C4: with gamma = 1 a train call leaves the arms without a sample in the
\* batch as they were, and the arm that gets the single sample (c, r) from
\* the initial state ends with I + c c^T and r c.
C4_OnlySampledArmsChange ==
  (op = "train" /\ gamma = Scale) =>
    /\ \A k \in Arms : ~InBatch(k) => ArmUnchanged(k)
    /\ (FirstTrain /\ Len(batch) = 1) =>
         LET k == batch[1].action
             c == batch[1].observation
             r == batch[1].reward
         IN  /\ \A i, j \in Dims :
                  cov_matrix[k][i][j] * Scale =
                    (IF i = j THEN Scale * Scale ELSE 0) + c[i] * c[j]
             /\ \A i \in Dims : data_vector[k][i] * Scale = r * c[i]
             /\ \A a \in Arms \ {k} : ArmIsInitial(a)

\* With gamma = 1: a single sample trained on from the initial state.
C4_Witness ==
  /\ gamma = Scale
  /\ FirstTrain
  /\ Len(batch) = 1
  /\ \E i, j \in Dims : i # j /\ cov_matrix[batch[1].action][i][j] # 0

\* The statistics did not change, over a step.
StoreUnchanged ==
  UNCHANGED <<cov_matrix, data_vector, num_samples, eig_vals, eig_matrix>>

\* C5: a selection leaves cov_matrix, data_vector, num_samples, eig_vals and
\* eig_matrix of every arm as they were, and a second selection on the same
\* store and the same batch returns the same actions.
C5_SelectionIsPure ==
  [][/\ op' \in {"select", "reselect"} => StoreUnchanged
     /\ op' = "reselect" => actions' = actions]_vars

\* A batch was selected on twice, on statistics that were trained.
C5_Witness ==
  /\ op = "reselect"
  /\ result = "ok"
  /\ num_trained > 0
  /\ Len(obs) = MaxBatch

\* The statistics as the variables hold them now.
CurrentStatistics ==
  [cov_matrix |-> cov_matrix, data_vector |-> data_vector,
   num_samples |-> num_samples,
   eig_vals |-> IF use_eigendecomp THEN eig_vals ELSE <<>>,
   eig_matrix |-> IF use_eigendecomp THEN eig_matrix ELSE <<>>]

\* The score of arm k for context c of the last selection, the context
\* taken on its own.
ScoreAlone(k, c) == PValues(CurrentStatistics, k, <<obs[c]>>)[1]

\* C6: for each context taken on its own the selected action has the
\* maximal score over all arms, and is the lowest arm with that score.
C6_ArgMaxFirst ==
  (op \in {"select", "reselect"} /\ result = "ok") =>
    /\ Len(actions) = Len(obs)
    /\ \A c \in 1 .. Len(obs) :
         /\ actions[c] \in Arms
         /\ \A k \in Arms : ScoreAlone(k, c) <= ScoreAlone(actions[c], c)
         /\ \A k \in Arms :
              k < actions[c] => ScoreAlone(k, c) < ScoreAlone(actions[c], c)

\* A batch of two contexts got two different actions, and the scores of
\* one of the contexts are tied between the selected arm and a later one.
C6_Witness ==
  /\ op = "select"
  /\ result = "ok"
  /\ num_trained > 0
  /\ Len(obs) = 2
  /\ actions[1] # actions[2]
  /\ \E c \in 1 .. 2 : \E k \in Arms :
       k > actions[c] /\ ScoreAlone(k, c) = ScoreAlone(actions[c], c)

\* C7: a selection through the policy constructed with the agent uses the
\* cov_matrix and data_vector of every arm as the train calls left them.
C7_PolicySeesTraining ==
  (op \in {"select", "reselect"} /\ result = "ok") =>
    actions = ChosenActions(CurrentStatistics, obs)

\* A selection after training whose actions are not the ones the statistics
\* of the time of the construction give.
C7_Witness ==
  /\ op = "select"
  /\ result = "ok"
  /\ num_trained > 0
  /\ actions #
       ChosenActions(PolicyVariables(InitialStore(use_eigendecomp),
                                     use_eigendecomp), obs)

\* vals and vecs are an eigendecomposition of the symmetric matrix M: the
\* columns of vecs are orthonormal, column l of vecs is an eigenvector of M
\* for the eigenvalue vals[l], and the eigenvalues ascend.
IsEigendecomposition(M, vals, vecs) ==
  /\ \A i, j \in Dims :
       SumFn([r \in Dims |-> vecs[r][i] * vecs[r][j]], ContextDim) =
         IF i = j THEN Scale * Scale ELSE 0
  /\ \A i, l \in Dims :
       SumFn([j \in Dims |-> M[i][j] * vecs[j][l]], ContextDim) =
         vals[l] * vecs[i][l]
  /\ \A i, j \in Dims : i < j => vals[i] <= vals[j]

\* C8: in eigendecomposition mode eig_vals[k] and eig_matrix[k] are the
\* eigendecomposition of the current cov_matrix[k], for every arm and after
\* every train call.
C8_EigendecompositionIsCurrent ==
  use_eigendecomp =>
    \A k \in Arms :
      IsEigendecomposition(cov_matrix[k], eig_vals[k], eig_matrix[k])

\* A train call in eigendecomposition mode after which the eigenvectors of
\* an arm are not the identity and its eigenvalues differ.
C8_Witness ==
  /\ use_eigendecomp
  /\ op = "train"
  /\ \E k \in Arms :
       /\ eig_matrix[k] # Eye
       /\ \E i, j \in Dims : eig_vals[k][i] # eig_vals[k][j]
       /\ prev.num[k] > 0

\* C9: with gamma = 1, two single-sample train calls one after the other
\* leave every arm with the cov_matrix and data_vector of one train call on
\* the two samples together.
C9_BatchIndependence ==
  [][(/\ gamma = Scale
      /\ op = "train" /\ Len(batch) = 1
      /\ op' = "train" /\ Len(batch') = 1) =>
       LET together == TrainStore(prev, batch \o batch', gamma,
                                  use_eigendecomp)
       IN  /\ cov_matrix' = together.cov
           /\ data_vector' = together.data]_vars

\* With gamma = 1: two single-sample train calls in a row, from the initial
\* state, both samples to the same arm.
C9_Witness ==
  /\ gamma = Scale
  /\ op = "train"
  /\ Len(batch) = 1
  /\ num_trained = 2
  /\ prev.num[batch[1].action] = 1

\* C10: after initialize every arm has the identity as cov_matrix and the
\* zero vector as data_vector.
C10_InitializeResets ==
  op = "initialize" => \A k \in Arms : ArmIsInitial(k)

\* initialize was called.
C10_Witness == op = "initialize"

\* C11: a construction whose number of covariance matrices is not
\* action_spec.maximum + 1 raises the ValueError of the configuration
\* checks, and a policy that exists has as many covariance matrices as its
\* action specification has actions.
C11_ArmCountChecked ==
  /\ policy.args.maximum + 1 # policy.args.num_cov =>
       policy.error = "ValueError"
  /\ policy.error = "none" =>
       /\ policy.num_actions = policy.args.maximum + 1
       /\ policy.num_actions = policy.args.num_cov

\* A construction refused for its arm count alone: lists of one length,
\* a flat action specification, matching dimensions.
C11_Witness ==
  /\ op = "construct_policy"
  /\ policy.error = "ValueError"
  /\ policy.args.not_a_list = "none"
  /\ ~policy.args.nested
  /\ policy.args.num_cov > 0
  /\ policy.args.num_data = policy.args.num_cov
  /\ policy.args.num_num = policy.args.num_cov
  /\ policy.args.cov_dim = policy.args.observation_dim
  /\ policy.args.data_dim = policy.args.observation_dim
  /\ policy.args.maximum + 1 # policy.args.num_cov

\* C12: a selection on a batch whose contexts are not of dimension d
\* raises the error of the shape check, returns no action for any context
\* of the batch and leaves the statistics as they were.
C12_MismatchedSelectionRejected ==
  [][(/\ op' \in {"select", "reselect"}
      /\ \E c \in 1 .. Len(obs') : Len(obs'[c]) # ContextDim) =>
       /\ result' = "ValueError"
       /\ actions' = <<>>
       /\ StoreUnchanged]_vars

\* A selection on trained statistics, refused for a batch of two contexts
\* of another dimension.
C12_Witness ==
  /\ op = "select"
  /\ result = "ValueError"
  /\ num_trained > 0
  /\ Len(obs) = MaxBatch
  /\ Len(obs[1]) # ContextDim

\* The last train call was given a batch with a context of another
\* dimension than d.
MalformedBatch ==
  op = "train" /\ \E n \in 1 .. Len(batch) :
                    Len(batch[n].observation) # ContextDim

\* C13: a train call on a batch with a sample whose context is not of
\* dimension d fails and leaves cov_matrix, data_vector and num_samples of
\* every arm as they were before the call.
C13_MalformedBatchRejected ==
  MalformedBatch =>
    /\ result = "DimensionMismatch"
    /\ cov_matrix = prev.cov
    /\ data_vector = prev.data
    /\ num_samples = prev.num

\* A train call on trained statistics, refused for its second sample, the
\* first sample being well-formed.
C13_Witness ==
  /\ MalformedBatch
  /\ result = "DimensionMismatch"
  /\ num_trained > 0
  /\ Len(batch) = 2
  /\ Len(batch[1].observation) = ContextDim

\* C14, as claimed: a construction with no arm (K <= 0) or with context
\* dimension d <= 0 raises the ValueError of the configuration checks.
C14_NonPositiveRejected ==
  (\/ policy.args.maximum + 1 <= 0
   \/ policy.args.num_cov <= 0
   \/ policy.args.observation_dim <= 0) =>
     policy.error = "ValueError"

\* The step type the i-th call on the wrapped environment returned.
Returned(i) == env_calls[i].time_step.step_type

\* C15, as claimed: the first step call on a wrapper, whether or not reset
\* calls came before it, and the step call that follows a LAST time step
\* both return a FIRST time step.
C15_StepStartsEpisode ==
  \A i \in 1 .. Len(env_calls) :
    (/\ env_calls[i].call = "step"
     /\ \/ \A j \in 1 .. (i - 1) : env_calls[j].call = "reset"
        \/ (i > 1 /\ Returned(i - 1) = "LAST")) =>
      Returned(i) = "FIRST"

\* C15, amended: a step call that is the first call on the wrapper, or that
\* follows a LAST time step, returns a FIRST time step; a step call that
\* follows a FIRST or MID time step, the FIRST of a reset included, steps
\* the episode and returns MID or LAST.
C15_StepWithoutEpisodeStartsOne ==
  \A i \in 1 .. Len(env_calls) :
    env_calls[i].call = "step" =>
      /\ (i = 1 \/ (i > 1 /\ Returned(i - 1) = "LAST")) =>
            Returned(i) = "FIRST"
      /\ (i > 1 /\ Returned(i - 1) \in {"FIRST", "MID"}) =>
            Returned(i) \in {"MID", "LAST"}

\* A step as first call, a step right after a reset, and a step after a
\* LAST time step have all happened.
C15_Witness ==
  /\ Len(env_calls) >= 4
  /\ env_calls[1].call = "step"
  /\ \E i \in 2 .. Len(env_calls) :
       env_calls[i - 1].call = "reset" /\ env_calls[i].call = "step"
  /\ \E i \in 2 .. Len(env_calls) :
       Returned(i - 1) = "LAST" /\ env_calls[i].call = "step"

\* C16: every FIRST time step has reward 0 and discount 1, every MID time
\* step discount 1, every LAST time step discount 0; and the step that
\* follows a reset, the gym environment not ending the episode, returns a
\* MID time step.
C16_TimeStepsByType ==
  \A i \in 1 .. Len(env_calls) :
    LET time_step == env_calls[i].time_step
    IN  /\ time_step.step_type \in {"FIRST", "MID", "LAST"}
        /\ time_step.step_type = "FIRST" =>
              time_step.reward = 0 /\ time_step.discount = Scale
        /\ time_step.step_type = "MID" => time_step.discount = Scale
        /\ time_step.step_type = "LAST" => time_step.discount = 0
        /\ (/\ i > 1
            /\ env_calls[i - 1].call = "reset"
            /\ env_calls[i].call = "step"
            /\ ~env_calls[i].done) => time_step.step_type = "MID"

\* A reset, the step after it returning MID, and later a LAST time step.
C16_Witness ==
  /\ \E i \in 2 .. Len(env_calls) :
       /\ env_calls[i - 1].call = "reset"
       /\ Returned(i - 1) = "FIRST"
       /\ env_calls[i].call = "step"
       /\ Returned(i) = "MID"
  /\ \E i \in 1 .. Len(env_calls) : Returned(i) = "LAST"

\* C17: policy.action raises TypeError whenever a component of the action
\* produced has an element type other than the one its specification
\* declares, one such component of a list being enough, and returns the
\* action produced, element types unchanged, when all of them match.
C17_DtypesChecked ==
  tf_policy.result # "none" =>
    LET matched == \A i \in 1 .. Len(tf_policy.action_spec) :
                     tf_policy.produced[i] = tf_policy.action_spec[i]
    IN  /\ ~matched =>
              tf_policy.result = "TypeError" /\ tf_policy.returned = <<>>
        /\ matched =>
              /\ tf_policy.result = "ok"
              /\ tf_policy.returned = tf_policy.produced

\* The list action of the test: specification (int64, int32), action
\* produced (int64, int64), rejected for its second component alone.
C17_Witness ==
  /\ tf_policy.action_spec = <<"int64", "int32">>
  /\ tf_policy.produced = <<"int64", "int64">>
  /\ tf_policy.result = "TypeError"

\* The policy over the same statistics, constructed without eig_vals and
\* eig_matrix: it scores through the direct solve.
DirectSolve(pol) == [pol EXCEPT !.eig_vals = <<>>, !.eig_matrix = <<>>]

\* The absolute value, and the numerical tolerance of a score: one
\* hundredth.
Abs(x) == IF x < 0 THEN 0 - x ELSE x
ScoreTolerance == Scale \div 100

\* The last operation was a selection in eigendecomposition mode that
\* returned actions.
SelectedFromCache ==
  op \in {"select", "reselect"} /\ result = "ok" /\ use_eigendecomp

Ascending(I) ==
  CHOOSE s \in [1 .. Cardinality(I) -> I] :
    \A a, b \in 1 .. Cardinality(I) : a < b => s[a] < s[b]

\* seq without its entry j.
Without(seq, j) ==
  [i \in 1 .. (Len(seq) - 1) |-> IF i < j THEN seq[i] ELSE seq[i + 1]]

\* The determinant of the rows and columns of M that are listed, by
\* expansion along the first row listed.
RECURSIVE Det(_, _, _)
Det(M, rows, cols) ==
  IF Len(rows) = 0 THEN 1
  ELSE SumFn([j \in 1 .. Len(cols) |->
                (IF j % 2 = 1 THEN 1 ELSE 0 - 1)
                  * M[rows[1]][cols[j]]
                  * Det(M, Without(rows, 1), Without(cols, j))],
             Len(cols))

\* M is symmetric and every principal minor of M is non-negative: M is
\* positive semi-definite.
SymmetricPSD(M) ==
  /\ \A i, j \in Dims : M[i][j] = M[j][i]
  /\ \A I \in (SUBSET Dims) \ {{}} :
       Det(M, Ascending(I), Ascending(I)) >= 0

\* C19: after any sequence of train calls from the initial state, with
\* gamma 0.9 or 1, cov_matrix[k] of every arm is symmetric and positive
\* semi-definite.
C19_CovSymmetricPSD == \A k \in Arms : SymmetricPSD(cov_matrix[k])

\* A train call with gamma < 1 on an arm that had samples, after which its
\* cov_matrix is not diagonal.
C19_Witness ==
  /\ op = "train"
  /\ gamma < Scale
  /\ \E k \in Arms :
       /\ prev.num[k] > 0
       /\ InBatch(k)
       /\ \E i, j \in Dims : i # j /\ cov_matrix[k][i][j] # 0

\* C20: a selection that is accepted returns one action for each context of
\* the batch, each of them an arm of the store and an action of the action
\* specification: at least 0 and at most action_spec.maximum, which is the
\* number of covariance matrices less one.
C20_ActionsWithinSpec ==
  /\ policy.error = "none"
  /\ policy.num_actions = Cardinality(DOMAIN cov_matrix)
  /\ (op \in {"select", "reselect"} /\ result = "ok") =>
       /\ DOMAIN actions = DOMAIN obs
       /\ \A c \in DOMAIN actions :
            /\ actions[c] \in 0 .. policy.args.maximum
            /\ actions[c] \in DOMAIN cov_matrix

\* A batch of two contexts was accepted and the last arm was selected for
\* one of them.
C20_Witness ==
  /\ op = "select"
  /\ result = "ok"
  /\ Len(obs) = MaxBatch
  /\ \E c \in DOMAIN actions : actions[c] = policy.args.maximum

====
